---- MODULE Spec2Model ----
(***************************************************************************)
(* Envelope construction of HuaRunTongAPI (script/huaruntong/huaruntong_wx *)
(* /api.py): _crypto_data assembles the protocol fields, signs the         *)
(* canonical string with HMAC-MD5, encrypts the JSON of the parameter map  *)
(* with AES-CBC under a fresh key and a zero IV, and wraps the key with    *)
(* RSA-OAEP.  Several calls of _send_request run concurrently; each owns   *)
(* its copy of the payload and its locals, and they share the clock, the   *)
(* random source and the class attributes.                                 *)
(*                                                                         *)
(* AutoBuy.timed_buy (script/shyp/auto_buy.py), which waits for a target   *)
(* time and then tries buy() in a loop, is a specification of its own, and *)
(* so are the canonicalization and the padding run alone.                  *)
(*                                                                         *)
(* A Python str is the sequence of its code points.  The cryptographic     *)
(* primitives are symbolic: a digest or a ciphertext is a term that names  *)
(* its algorithm and its inputs, so two results are equal exactly when the *)
(* inputs are.                                                             *)
(***************************************************************************)
EXTENDS Integers, Sequences, FiniteSets, TLC

\* ------------------------------------------------------------------ bounds

\* The clock runs from 0 to MaxClock milliseconds.
MaxClock == 1
\* os.urandom(16) returns one of NumKeys byte strings.
NumKeys == 2
\* PKCS1_OAEP draws one of NumSeeds seeds for a key wrap.
NumSeeds == 1
\* A map given to the canonicalization alone has MaxEntries entries at most.
MaxEntries == 2
\* A byte string given to _pad_pkcs7 alone has MaxDataLen bytes at most.
MaxDataLen == 32
\* timed_buy is called with retry_times from 0 to MaxRetryTimes.
MaxRetryTimes == 3
\* wait_until sleeps MaxWait times at most before the target time.
MaxWait == 2

\* The concurrent calls of _send_request.
Calls == {"c1", "c2"}

\* ----------------------------------------------------------------- strings

\* A str is the sequence of its code points, a bytes object the sequence of
\* its bytes; str.encode('utf-8') of the characters below is the same
\* sequence.  CodePoint gives the code point of each character the model
\* writes.
CodePoint ==
    "\"" :> 34 @@ "%" :> 37 @@ "&" :> 38 @@ "," :> 44 @@ "-" :> 45 @@
    "." :> 46 @@ "/" :> 47 @@ "0" :> 48 @@ "1" :> 49 @@ "2" :> 50 @@
    "3" :> 51 @@ "4" :> 52 @@ "5" :> 53 @@ "6" :> 54 @@ "7" :> 55 @@
    "8" :> 56 @@ "9" :> 57 @@ ":" :> 58 @@ "<" :> 60 @@ "=" :> 61 @@
    ">" :> 62 @@ "A" :> 65 @@ "B" :> 66 @@ "C" :> 67 @@ "D" :> 68 @@
    "E" :> 69 @@ "F" :> 70 @@ "H" :> 72 @@ "I" :> 73 @@ "N" :> 78 @@
    "P" :> 80 @@ "T" :> 84 @@ "U" :> 85 @@ "W" :> 87 @@ "Z" :> 90 @@ "[" :> 91 @@
    "]" :> 93 @@ "_" :> 95 @@ "a" :> 97 @@ "b" :> 98 @@ "c" :> 99 @@
    "d" :> 100 @@ "e" :> 101 @@ "f" :> 102 @@ "g" :> 103 @@ "h" :> 104 @@ "i" :> 105 @@
    "j" :> 106 @@ "l" :> 108 @@ "m" :> 109 @@ "n" :> 110 @@ "o" :> 111 @@
    "p" :> 112 @@ "r" :> 114 @@ "s" :> 115 @@ "t" :> 116 @@ "u" :> 117 @@
    "x" :> 120 @@ "z" :> 122 @@ "{" :> 123 @@ "}" :> 125 @@ "~" :> 126

\* The str of a literal given character by character.
Str(chars) == [i \in 1..Len(chars) |-> CodePoint[chars[i]]]

\* Mutant: two "key=value" strings are compared by their keys alone.
StrLessByKey(a, b) ==
    LET KeyOf(s) ==
            SubSeq(s, 1, (CHOOSE i \in 1..Len(s) :
                            /\ s[i] = CodePoint["="]
                            /\ \A j \in 1..(i - 1) : s[j] # CodePoint["="]) - 1)
        ka == KeyOf(a)
        kb == KeyOf(b)
    IN  \E i \in 1..Len(kb) :
            /\ i <= Len(ka) + 1
            /\ SubSeq(ka, 1, i - 1) = SubSeq(kb, 1, i - 1)
            /\ (i = Len(ka) + 1 \/ ka[i] < kb[i])

\* a < b for two str, as Python compares them: by code point, a proper
\* prefix first.
RECURSIVE StrLess(_, _)
StrLess(a, b) ==
    IF b = <<>> THEN FALSE
    ELSE IF a = <<>> THEN TRUE
    ELSE IF Head(a) = Head(b) THEN StrLess(Tail(a), Tail(b))
    ELSE Head(a) < Head(b)

Digits == Str(<<"0", "1", "2", "3", "4", "5", "6", "7", "8", "9">>)

HexDigits == Digits \o Str(<<"A", "B", "C", "D", "E", "F">>)

\* str(n) of a non-negative int.
RECURSIVE IntToStr(_)
IntToStr(n) ==
    IF n < 10 THEN <<Digits[n + 1]>>
    ELSE IntToStr(n \div 10) \o <<Digits[(n % 10) + 1]>>

\* sep.join(strs)
RECURSIVE Join(_, _)
Join(sep, strs) ==
    IF strs = <<>> THEN <<>>
    ELSE IF Len(strs) = 1 THEN strs[1]
    ELSE strs[1] \o sep \o Join(sep, Tail(strs))

\* sorted(strs): ascending by the whole string.
RECURSIVE Insert(_, _)
Insert(s, sorted) ==
    IF sorted = <<>> THEN <<s>>
    ELSE IF StrLess(s, Head(sorted)) THEN <<s>> \o sorted
    ELSE <<Head(sorted)>> \o Insert(s, Tail(sorted))

\* (first and rest are bound to values, so that each is computed once.)
RECURSIVE Sorted(_)
Sorted(strs) ==
    IF strs = <<>> THEN <<>>
    ELSE CHOOSE s \in {Insert(first, rest) :
                          first \in {Head(strs)}, rest \in {Sorted(Tail(strs))}} : TRUE

\* The characters quote never encodes: letters, digits and "_.-~".
Unreserved(ch) ==
    \/ ch \in CodePoint["0"]..CodePoint["9"]
    \/ ch \in CodePoint["A"]..CodePoint["Z"]
    \/ ch \in CodePoint["a"]..CodePoint["z"]
    \/ ch \in {CodePoint["_"], CodePoint["."], CodePoint["-"], CodePoint["~"]}

\* urllib.parse.quote(s, safe=''): any other character becomes "%XX".
RECURSIVE quote(_)
quote(s) ==
    IF s = <<>> THEN <<>>
    ELSE (IF Unreserved(Head(s)) THEN <<Head(s)>>
          ELSE <<CodePoint["%"], HexDigits[(Head(s) \div 16) + 1],
                 HexDigits[(Head(s) % 16) + 1]>>) \o quote(Tail(s))

\* ------------------------------------------------------------------ values

\* A Python value: t is its type; s the characters of a str, n the number of
\* an int, items the elements of a list or the entries [k, v] of a dict in
\* insertion order.  "obj" is an object json cannot
\* serialize; its str() is the default repr.
StrV(s) == [t |-> "str", s |-> s, n |-> 0, items |-> <<>>]
IntV(n) == [t |-> "int", s |-> <<>>, n |-> n, items |-> <<>>]
NoneV == [t |-> "none", s |-> <<>>, n |-> 0, items |-> <<>>]
ObjV == [t |-> "obj", s |-> <<>>, n |-> 0, items |-> <<>>]
ListV(items) == [t |-> "list", s |-> <<>>, n |-> 0, items |-> items]
DictV(entries) == [t |-> "dict", s |-> <<>>, n |-> 0, items |-> entries]

\* str(value), as an f-string formats it.
PyStr(value) ==
    CASE value.t = "str" -> value.s
      [] value.t = "int" -> IntToStr(value.n)
      [] value.t = "none" -> Str(<<"N", "o", "n", "e">>)
      [] value.t = "obj" -> Str(<<"<", "o", "b", "j", ">">>)
      [] OTHER -> <<>>

\* json.dumps raises TypeError for a value it cannot serialize, wherever the
\* value sits.
RECURSIVE Serializable(_)
Serializable(value) ==
    /\ value.t # "obj"
    /\ \A i \in 1..Len(value.items) :
          Serializable(IF value.t = "dict" THEN value.items[i].v
                       ELSE value.items[i])

\* json.dumps(value, separators=(',', ':')) of a serializable value.
RECURSIVE JsonText(_)
JsonText(value) ==
    CASE value.t = "str" -> Str(<<"\"">>) \o value.s \o Str(<<"\"">>)
      [] value.t = "int" -> IntToStr(value.n)
      [] value.t = "none" -> Str(<<"n", "u", "l", "l">>)
      [] value.t = "list" ->
            Str(<<"[">>) \o Join(Str(<<",">>), [i \in 1..Len(value.items) |->
                                          JsonText(value.items[i])])
                         \o Str(<<"]">>)
      [] value.t = "dict" ->
            Str(<<"{">>) \o Join(Str(<<",">>), [i \in 1..Len(value.items) |->
                                    Str(<<"\"">>) \o value.items[i].k
                                        \o Str(<<"\"", ":">>)
                                        \o JsonText(value.items[i].v)])
                         \o Str(<<"}">>)
      [] OTHER -> <<>>

\* ------------------------------------------------------------------- dicts

\* A dict is the sequence of its entries [k, v] in insertion order, the keys
\* distinct.
DictKeys(d) == {d[i].k : i \in 1..Len(d)}

DictGet(d, k) == d[CHOOSE i \in 1..Len(d) : d[i].k = k].v

\* d[k] = v: an existing key keeps its position.
DictSet(d, k, v) ==
    IF k \in DictKeys(d)
    THEN [i \in 1..Len(d) |-> IF d[i].k = k THEN [k |-> k, v |-> v] ELSE d[i]]
    ELSE Append(d, [k |-> k, v |-> v])

\* json.dumps of a dict raises TypeError when any value is not serializable.
DictSerializable(d) == \A i \in 1..Len(d) : Serializable(d[i].v)

\* Mutant: json.dumps with sort_keys=True.
JsonDumpsSortedKeys(d) ==
    LET Before(a, b) ==
            \E i \in 1..Len(b) :
                /\ i <= Len(a) + 1
                /\ SubSeq(a, 1, i - 1) = SubSeq(b, 1, i - 1)
                /\ (i = Len(a) + 1 \/ a[i] < b[i])
        Rank(i) == Cardinality({j \in 1..Len(d) : Before(d[j].k, d[i].k)}) + 1
        s == [r \in 1..Len(d) |-> d[CHOOSE i \in 1..Len(d) : Rank(i) = r]]
    IN  Str(<<"{">>)
            \o Join(Str(<<",">>), [i \in 1..Len(s) |->
                     Str(<<"\"">>) \o s[i].k \o Str(<<"\"", ":">>) \o JsonText(s[i].v)])
            \o Str(<<"}">>)

\* json.dumps(d, separators=(',', ':')): the entries in the dict's own order.
JsonDumps(d) ==
    Str(<<"{">>)
        \o Join(Str(<<",">>), [i \in 1..Len(d) |->
                 Str(<<"\"">>) \o d[i].k \o Str(<<"\"", ":">>) \o JsonText(d[i].v)])
        \o Str(<<"}">>)

\* -------------------------------------------------------------- primitives

\* os.urandom(16) and the block size of AES.
KeyLen == 16
BlockSize == 16

\* The byte strings os.urandom(KeyLen) can return.
Keys == {[i \in 1..KeyLen |-> b] : b \in 1..NumKeys}

\* The seeds PKCS1_OAEP.encrypt can draw.
Seeds == 1..NumSeeds

\* hmac.new(key, msg, hashlib.md5).hexdigest(): the digest is the term
\* hmac(key,msg) written as a str.
HmacMd5Hex(key, msg) ==
    Str(<<"h", "m", "a", "c", "<">>) \o key \o Str(<<",">>) \o msg
        \o Str(<<">">>)

\* Mutant: nothing is appended to data that fills its last block.
_pad_pkcs7_no_full_block(data) ==
    LET padding_len == (BlockSize - (Len(data) % BlockSize)) % BlockSize
    IN  data \o [i \in 1..padding_len |-> padding_len]

\* Mutant: the padding bytes are zero.
_pad_pkcs7_zero_bytes(data) ==
    LET padding_len == BlockSize - (Len(data) % BlockSize)
    IN  data \o [i \in 1..padding_len |-> 0]

\* _pad_pkcs7(data, block_size=16)
_pad_pkcs7(data) ==
    LET padding_len == BlockSize - (Len(data) % BlockSize)
    IN  data \o [i \in 1..padding_len |-> padding_len]

\* AES.new(key, AES.MODE_CBC, iv)
AesNew(key, iv) == [key |-> key, iv |-> iv]

\* cipher_aes.encrypt(padded)
AesEncrypt(cipher, padded) ==
    [alg |-> "AES-CBC", key |-> cipher.key, iv |-> cipher.iv, pt |-> padded]

\* PKCS1_OAEP.new(RSA.import_key(pem)).encrypt(msg), with the seed drawn.
RsaOaepEncrypt(pem, msg, seed) ==
    [alg |-> "RSA-OAEP", pub |-> pem, msg |-> msg, seed |-> seed]

\* base64.b64encode(ciphertext).decode('utf-8')
B64(ciphertext) == [b64 |-> ciphertext]

NoB64 == [b64 |-> [alg |-> "none"]]

\* --------------------------------------------------------- class attributes

SECRET ==
    Str(<<"c", "2", "7", "4", "f", "c", "6", "7", "-", "1", "9", "f", "9", "-",
          "4", "7", "b", "a", "-", "b", "b", "8", "4", "-",
          "5", "8", "5", "a", "2", "e", "3", "a", "1", "f", "6", "a">>)

\* The PEM text is one opaque value: only RSA.import_key reads it.
PUB_KEY == "MIGfMA0GCSqGSIb3DQEBAQUAA4GNADCBiQKBgQDuAiqDmvn9Rf15o21qkDxN0rUf"

APP_ID == Str(<<"A", "P", "I", "_", "A", "U", "T", "H", "_", "W", "E", "B">>)

\* The keys _crypto_data writes.
K_apiPath == Str(<<"a", "p", "i", "P", "a", "t", "h">>)
K_appId == Str(<<"a", "p", "p", "I", "d">>)
K_timestamp == Str(<<"t", "i", "m", "e", "s", "t", "a", "m", "p">>)
K_signature == Str(<<"s", "i", "g", "n", "a", "t", "u", "r", "e">>)

\* ------------------------------------------------------------ canonical form

\* Mutant: an entry whose value is None is written as "key=None".
PartsWithNone(d) ==
    [i \in 1..Len(d) |->
        d[i].k \o Str(<<"=">>)
            \o (IF d[i].v.t \in {"dict", "list"} THEN JsonText(d[i].v)
                ELSE PyStr(d[i].v))]

\* The "key=value" strings of the entries whose value is not None; a dict or
\* a list is written as compact JSON, any other value by str().
RECURSIVE Parts(_)
Parts(d) ==
    IF d = <<>> THEN <<>>
    ELSE IF Head(d).v.t = "none" THEN Parts(Tail(d))
    ELSE <<Head(d).k \o Str(<<"=">>)
             \o (IF Head(d).v.t \in {"dict", "list"} THEN JsonText(Head(d).v)
                 ELSE PyStr(Head(d).v))>> \o Parts(Tail(d))

\* json.dumps(value) in the loop raises TypeError for a dict or a list that
\* holds an object json cannot serialize.
PartsRaise(d) ==
    \E i \in 1..Len(d) : d[i].v.t \in {"dict", "list"} /\ ~Serializable(d[i].v)

\* sign_str = "&".join(sorted(parts))
SignStr(d) ==
    CHOOSE sign_str \in
        {Join(Str(<<"&">>), sorted) :
            sorted \in {Sorted(parts) : parts \in {Parts(d)}}} : TRUE

\* ------------------------------------------------------------------- state

VARIABLES
    now,          \* int(time.time() * 1000), the shared clock
    attrs,        \* the class attributes SECRET, PUB_KEY, APP_ID
    pc,           \* per call: the statement it executes next
    payload,      \* per call: the caller's payload dict
    api_path,     \* per call: the api_path argument
    frame,        \* per call: the locals of _crypto_data
    result,       \* per call: <<envelope>> once _crypto_data has returned
    raised,       \* per call: the exception that ended it, "" when none
    clock_reads,  \* per call: the values it read from the clock
    draws,        \* per call: the byte strings os.urandom returned to it
    calls,        \* per call: the library calls it made, with the AES key
                  \* each was given
    posted,       \* per call: the bodies it handed to requests.post
    returned,     \* per call: <<value>> once _send_request has returned
    arg,          \* the argument of a function that is run on its own
    out,          \* <<value>> once that function has returned
    timed_buy,    \* AutoBuy.timed_buy: its arguments, locals and outcome
    events        \* what timed_buy has done so far, in order

vars == <<now, attrs, pc, payload, api_path, frame, result, raised,
          clock_reads, draws, calls, posted, returned, arg, out,
          timed_buy, events>>

\* The locals of _crypto_data before any is assigned, and after it has ended.
NoFrame ==
    [params |-> <<>>, sign_str |-> <<>>, signature |-> <<>>, aes_key |-> <<>>,
     cipher_aes |-> AesNew(<<>>, <<>>), plaintext |-> <<>>,
     data_b64 |-> NoB64, key_b64 |-> NoB64]

\* ------------------------------------------------------------------ inputs

Entry(k, v) == [k |-> k, v |-> v]

\* The payloads and paths callers pass.
Requests ==
    { [payload |-> <<Entry(Str(<<"b">>), StrV(Str(<<"2">>))),
                     Entry(Str(<<"a">>), StrV(Str(<<"1">>)))>>,
       api_path |-> StrV(Str(<<"/", "p">>))],
      [payload |-> <<Entry(Str(<<"x">>), NoneV),
                     Entry(Str(<<"a">>), IntV(1))>>,
       api_path |-> StrV(Str(<<"/", "p">>))],
      [payload |-> <<Entry(Str(<<"x">>), ObjV)>>,
       api_path |-> StrV(Str(<<"/", "p">>))],
      [payload |-> <<Entry(Str(<<"x">>), ListV(<<IntV(1), ObjV>>))>>,
       api_path |-> StrV(Str(<<"/", "p">>))],
      [payload |-> <<Entry(Str(<<"x">>), ListV(<<IntV(1), StrV(Str(<<"a">>))>>))>>,
       api_path |-> StrV(Str(<<"/", "p">>))],
      [payload |-> <<Entry(K_timestamp, StrV(Str(<<"9">>))),
                     Entry(K_signature, StrV(Str(<<"x">>))),
                     Entry(K_appId, StrV(Str(<<"x">>))),
                     Entry(K_apiPath, StrV(Str(<<"x">>)))>>,
       api_path |-> StrV(Str(<<"/", "p">>))],
      [payload |-> <<Entry(Str(<<"a">>), StrV(Str(<<"1">>)))>>,
       api_path |-> NoneV] }

\* timed_buy before it is called.
NotCalled ==
    [pc |-> "idle", retry_times |-> 0, valid |-> TRUE, remaining |-> 0, i |-> 0,
     ret |-> <<>>, raised |-> ""]

Init ==
    /\ now = 0
    /\ attrs = [SECRET |-> SECRET, PUB_KEY |-> PUB_KEY, APP_ID |-> APP_ID]
    /\ pc = [c \in Calls |-> "idle"]
    /\ payload = [c \in Calls |-> <<>>]
    /\ api_path = [c \in Calls |-> NoneV]
    /\ frame = [c \in Calls |-> NoFrame]
    /\ result = [c \in Calls |-> <<>>]
    /\ raised = [c \in Calls |-> ""]
    /\ clock_reads = [c \in Calls |-> <<>>]
    /\ draws = [c \in Calls |-> <<>>]
    /\ calls = [c \in Calls |-> <<>>]
    /\ posted = [c \in Calls |-> <<>>]
    /\ returned = [c \in Calls |-> <<>>]
    /\ arg = <<>>
    /\ out = <<>>
    /\ timed_buy = NotCalled
    /\ events = <<>>

\* ----------------------------------------------------------------- actions

\* Mutant: the exception is caught and what was built so far is returned.
RaiseReturnsPartial(c, exc) ==
    /\ pc' = [pc EXCEPT ![c] = "done"]
    /\ raised' = [raised EXCEPT ![c] = exc]
    /\ result' = [result EXCEPT ![c] =
            <<[key |-> frame[c].key_b64, data |-> frame[c].data_b64]>>]
    /\ frame' = [frame EXCEPT ![c] = NoFrame]
    /\ UNCHANGED <<posted, returned>>

\* Mutant: when the construction fails, the parameters are posted as they
\* are.
RaisePostsPlain(c, exc) ==
    /\ pc' = [pc EXCEPT ![c] = "returned"]
    /\ raised' = [raised EXCEPT ![c] = exc]
    /\ posted' = [posted EXCEPT ![c] = Append(@, [plain |-> frame[c].params])]
    /\ returned' = [returned EXCEPT ![c] = <<[success |-> FALSE, error |-> exc]>>]
    /\ frame' = [frame EXCEPT ![c] = NoFrame]
    /\ UNCHANGED result

\* Mutant: the locals of the failed construction are kept for inspection.
RaiseKeepsLocals(c, exc) ==
    /\ pc' = [pc EXCEPT ![c] = "error"]
    /\ raised' = [raised EXCEPT ![c] = exc]
    /\ UNCHANGED <<frame, result, posted, returned>>

\* An exception leaves _crypto_data, and _send_request with it (line 123 is
\* outside the try): the locals are gone, nothing is returned or posted.
Raise(c, exc) ==
    /\ pc' = [pc EXCEPT ![c] = "error"]
    /\ raised' = [raised EXCEPT ![c] = exc]
    /\ frame' = [frame EXCEPT ![c] = NoFrame]
    /\ UNCHANGED <<result, posted, returned>>

\* Mutant: the payload is encrypted before it is signed.
SuccessorEncryptFirst(label) ==
    CASE label = "assemble" -> "genkey"
      [] label = "genkey" -> "cipher"
      [] label = "cipher" -> "dumps"
      [] label = "dumps" -> "encrypt"
      [] label = "encrypt" -> "sign"
      [] label = "sign" -> "wrap"
      [] label = "wrap" -> "return"
      [] label = "return" -> "done"

\* The statements of _crypto_data run top to bottom: the label after each.
Successor(label) ==
    CASE label = "assemble" -> "sign"
      [] label = "sign" -> "genkey"
      [] label = "genkey" -> "cipher"
      [] label = "cipher" -> "dumps"
      [] label = "dumps" -> "encrypt"
      [] label = "encrypt" -> "wrap"
      [] label = "wrap" -> "return"
      [] label = "return" -> "done"

\* Call c goes on with its next statement.
Step(c) ==
    /\ pc' = [pc EXCEPT ![c] = Successor(pc[c])]
    /\ UNCHANGED <<raised, result, posted, returned>>

\* Mutant: the dict is kept in one attribute of the instance, which a call
\* that entered later has overwritten.
ParamsShared(c) ==
    IF \E d \in Calls \ {c} : frame[d].params # <<>>
    THEN frame[CHOOSE d \in Calls \ {c} : frame[d].params # <<>>].params
    ELSE frame[c].params

\* The params dict call c works on: the one it was given.
Params(c) == frame[c].params

LibCall(c, op, key) ==
    calls' = [calls EXCEPT ![c] = Append(@, [op |-> op, key |-> key])]

\* The clock advances by a millisecond.
Tick ==
    /\ now < MaxClock
    /\ now' = now + 1
    /\ UNCHANGED <<timed_buy, events, arg, out, attrs, pc, payload, api_path, frame, result, raised,
                   clock_reads, draws, calls, posted, returned>>

\* _send_request(api_path, payload): _crypto_data is given a copy of the
\* payload.
SendRequest(c, req) ==
    /\ pc[c] = "idle"
    /\ payload' = [payload EXCEPT ![c] = req.payload]
    /\ api_path' = [api_path EXCEPT ![c] = req.api_path]
    /\ frame' = [frame EXCEPT ![c].params = req.payload]
    /\ pc' = [pc EXCEPT ![c] = "assemble"]
    /\ UNCHANGED <<raised, result>>
    /\ UNCHANGED <<timed_buy, events, arg, out, now, attrs, clock_reads, draws, calls, posted, returned>>

\* Mutant: the app id is left out of the map.
AssembledParamsWithoutAppId(params, path, app_id, timestamp) ==
    DictSet(DictSet(params, K_apiPath, StrV(quote(path))),
            K_timestamp, IntV(timestamp))

\* Mutant: a field the caller supplied is kept (dict.setdefault).
AssembledParamsKeepCaller(params, path, app_id, timestamp) ==
    LET SetDefault(d, k, v) == IF k \in DictKeys(d) THEN d ELSE DictSet(d, k, v)
    IN  SetDefault(SetDefault(SetDefault(params, K_apiPath, StrV(quote(path))),
                              K_appId, StrV(app_id)),
                   K_timestamp, IntV(timestamp))

\* params["apiPath"], params["appId"], params["timestamp"]
AssembledParams(params, path, app_id, timestamp) ==
    DictSet(DictSet(DictSet(params, K_apiPath, StrV(quote(path))),
                    K_appId, StrV(app_id)),
            K_timestamp, IntV(timestamp))

\* Mutant: _crypto_data is given the payload itself, not a copy.
AssembleInPayload(c) ==
    /\ pc[c] = "assemble"
    /\ IF api_path[c].t # "str"
       THEN /\ Raise(c, "quote:TypeError")
            /\ UNCHANGED <<clock_reads, payload>>
       ELSE /\ frame' = [frame EXCEPT ![c].params =
                    AssembledParams(Params(c), api_path[c].s, attrs.APP_ID, now)]
            /\ payload' = [payload EXCEPT ![c] =
                    AssembledParams(Params(c), api_path[c].s, attrs.APP_ID, now)]
            /\ clock_reads' = [clock_reads EXCEPT ![c] = Append(@, now)]
            /\ Step(c)
    /\ UNCHANGED <<timed_buy, events, arg, out, now, attrs, api_path, draws, calls>>

\* Lines 70-72: quote raises TypeError for a path that is no str; the clock is
\* read once.
Assemble(c) ==
    /\ pc[c] = "assemble"
    /\ IF api_path[c].t # "str"
       THEN /\ Raise(c, "quote:TypeError")
            /\ UNCHANGED clock_reads
       ELSE /\ frame' = [frame EXCEPT ![c].params =
                    AssembledParams(Params(c), api_path[c].s, attrs.APP_ID, now)]
            /\ clock_reads' = [clock_reads EXCEPT ![c] = Append(@, now)]
            /\ Step(c)
    /\ UNCHANGED <<timed_buy, events, arg, out, now, attrs, payload, api_path, draws, calls>>

\* Mutant: the clock value at the time of signing is signed with the string.
SignWithClock(c) ==
    /\ pc[c] = "sign"
    /\ IF PartsRaise(Params(c))
       THEN /\ Raise(c, "json.dumps:TypeError")
            /\ UNCHANGED calls
       ELSE LET sign_str == SignStr(Params(c))
                signature == HmacMd5Hex(attrs.SECRET, sign_str \o IntToStr(now))
            IN  /\ frame' = [frame EXCEPT
                        ![c].sign_str = sign_str,
                        ![c].signature = signature,
                        ![c].params =
                            DictSet(Params(c), K_signature, StrV(signature))]
                /\ LibCall(c, "hmac.new", <<>>)
                /\ Step(c)
    /\ UNCHANGED <<timed_buy, events, arg, out, now, attrs, payload, api_path, clock_reads, draws>>

\* Mutant: the entries whose value is None are removed from the map.
SignAndDropNone(c) ==
    /\ pc[c] = "sign"
    /\ IF PartsRaise(Params(c))
       THEN /\ Raise(c, "json.dumps:TypeError")
            /\ UNCHANGED calls
       ELSE LET sign_str == SignStr(Params(c))
                signature == HmacMd5Hex(attrs.SECRET, sign_str)
            IN  /\ frame' = [frame EXCEPT
                        ![c].sign_str = sign_str,
                        ![c].signature = signature,
                        ![c].params =
                            DictSet(SelectSeq(Params(c), LAMBDA e : e.v.t # "none"),
                                    K_signature, StrV(signature))]
                /\ LibCall(c, "hmac.new", <<>>)
                /\ Step(c)
    /\ UNCHANGED <<timed_buy, events, arg, out, now, attrs, payload, api_path, clock_reads, draws>>

\* Lines 75-88: the canonical string, its HMAC-MD5, params["signature"].
Sign(c) ==
    /\ pc[c] = "sign"
    /\ IF PartsRaise(Params(c))
       THEN /\ Raise(c, "json.dumps:TypeError")
            /\ UNCHANGED calls
       ELSE LET sign_str == SignStr(Params(c))
                signature == HmacMd5Hex(attrs.SECRET, sign_str)
            IN  /\ frame' = [frame EXCEPT
                        ![c].sign_str = sign_str,
                        ![c].signature = signature,
                        ![c].params =
                            DictSet(Params(c), K_signature, StrV(signature))]
                /\ LibCall(c, "hmac.new", <<>>)
                /\ Step(c)
    /\ UNCHANGED <<timed_buy, events, arg, out, now, attrs, payload, api_path, clock_reads, draws>>

\* Mutant: the key is generated once and kept for the calls that follow.
_generate_aes_key_cached(c, k) ==
    IF \E d \in Calls \ {c} : draws[d] # <<>>
    THEN /\ frame' = [frame EXCEPT ![c].aes_key =
                 draws[CHOOSE d \in Calls \ {c} : draws[d] # <<>>][1]]
         /\ UNCHANGED draws
    ELSE /\ frame' = [frame EXCEPT ![c].aes_key = k]
         /\ draws' = [draws EXCEPT ![c] = Append(@, k)]

\* Line 91: aes_key = self._generate_aes_key(), which returns os.urandom(16).
_generate_aes_key(c, k) ==
    /\ frame' = [frame EXCEPT ![c].aes_key = k]
    /\ draws' = [draws EXCEPT ![c] = Append(@, k)]

GenKey(c) ==
    /\ pc[c] = "genkey"
    /\ \E k \in Keys : _generate_aes_key(c, k)
    /\ LibCall(c, "os.urandom", <<>>)
    /\ Step(c)
    /\ UNCHANGED <<timed_buy, events, arg, out, now, attrs, payload, api_path, clock_reads>>

\* Mutant: a failed draw is tried again.
GenKeyFailsAndRetries(c) ==
    /\ pc[c] = "genkey"
    /\ Len(calls[c]) < 4
    /\ LibCall(c, "os.urandom", <<>>)
    /\ UNCHANGED <<timed_buy, events, arg, out, now, attrs, pc, payload, api_path, frame, result, raised,
                   clock_reads, draws, posted, returned>>

\* os.urandom raises when the system has no random source.
GenKeyFails(c) ==
    /\ pc[c] = "genkey"
    /\ Raise(c, "os.urandom:OSError")
    /\ LibCall(c, "os.urandom", <<>>)
    /\ UNCHANGED <<timed_buy, events, arg, out, now, attrs, payload, api_path, clock_reads, draws>>

\* iv = b'\x00' * 16
ZeroIv == [i \in 1..BlockSize |-> 0]

\* Mutant: the key is used as the IV.
CipherSetupKeyAsIv(c) ==
    /\ pc[c] = "cipher"
    /\ frame' = [frame EXCEPT ![c].cipher_aes =
            AesNew(frame[c].aes_key, frame[c].aes_key)]
    /\ LibCall(c, "AES.new", frame[c].aes_key)
    /\ Step(c)
    /\ UNCHANGED <<timed_buy, events, arg, out, now, attrs, payload, api_path, clock_reads, draws>>

\* Lines 92-93: the cipher object holds the key and the IV.
CipherSetup(c) ==
    /\ pc[c] = "cipher"
    /\ frame' = [frame EXCEPT ![c].cipher_aes = AesNew(frame[c].aes_key, ZeroIv)]
    /\ LibCall(c, "AES.new", frame[c].aes_key)
    /\ Step(c)
    /\ UNCHANGED <<timed_buy, events, arg, out, now, attrs, payload, api_path, clock_reads, draws>>

\* Mutant: the timestamp is read again for the payload.
DumpsWithNewTimestamp(c) ==
    /\ pc[c] = "dumps"
    /\ IF ~DictSerializable(Params(c))
       THEN /\ Raise(c, "json.dumps:TypeError")
            /\ UNCHANGED clock_reads
       ELSE /\ frame' = [frame EXCEPT
                    ![c].params = DictSet(Params(c), K_timestamp, IntV(now)),
                    ![c].plaintext =
                        JsonDumps(DictSet(Params(c), K_timestamp, IntV(now)))]
            /\ clock_reads' = [clock_reads EXCEPT ![c] = Append(@, now)]
            /\ Step(c)
    /\ UNCHANGED <<timed_buy, events, arg, out, now, attrs, payload, api_path, draws, calls>>

\* Mutant: the map is serialized without its signature.
DumpsWithoutSignature(c) ==
    /\ pc[c] = "dumps"
    /\ IF ~DictSerializable(Params(c))
       THEN Raise(c, "json.dumps:TypeError")
       ELSE /\ frame' = [frame EXCEPT ![c].plaintext =
                    JsonDumps(SelectSeq(Params(c), LAMBDA e : e.k # K_signature))]
            /\ Step(c)
    /\ UNCHANGED <<timed_buy, events, arg, out, now, attrs, payload, api_path, clock_reads, draws, calls>>

\* Line 95: json.dumps of the whole map raises TypeError for a value it
\* cannot serialize.
Dumps(c) ==
    /\ pc[c] = "dumps"
    /\ IF ~DictSerializable(Params(c))
       THEN Raise(c, "json.dumps:TypeError")
       ELSE /\ frame' = [frame EXCEPT ![c].plaintext = JsonDumps(Params(c))]
            /\ Step(c)
    /\ UNCHANGED <<timed_buy, events, arg, out, now, attrs, payload, api_path, clock_reads, draws, calls>>

\* Lines 96-98: pad, encrypt, base64.
Encrypt(c) ==
    /\ pc[c] = "encrypt"
    /\ frame' = [frame EXCEPT ![c].data_b64 =
            B64(AesEncrypt(frame[c].cipher_aes, _pad_pkcs7(frame[c].plaintext)))]
    /\ LibCall(c, "cipher_aes.encrypt", <<>>)
    /\ Step(c)
    /\ UNCHANGED <<timed_buy, events, arg, out, now, attrs, payload, api_path, clock_reads, draws>>

\* The cipher library fails.
EncryptFails(c) ==
    /\ pc[c] = "encrypt"
    /\ Raise(c, "cipher_aes.encrypt:Error")
    /\ LibCall(c, "cipher_aes.encrypt", <<>>)
    /\ UNCHANGED <<timed_buy, events, arg, out, now, attrs, payload, api_path, clock_reads, draws>>

\* Mutant: the key that is wrapped is generated anew.
WrapKeyOfNewKey(c) ==
    /\ pc[c] = "wrap"
    /\ \E seed \in Seeds, k \in Keys :
          /\ frame' = [frame EXCEPT ![c].key_b64 =
                  B64(RsaOaepEncrypt(attrs.PUB_KEY, k, seed))]
          /\ calls' = [calls EXCEPT ![c] =
                  Append(@, [op |-> "cipher_rsa.encrypt", key |-> k])]
    /\ Step(c)
    /\ UNCHANGED <<timed_buy, events, arg, out, now, attrs, payload, api_path, clock_reads, draws>>

\* Lines 101-104: the key is encrypted under the public key, with a seed
\* PKCS1_OAEP draws.
WrapKey(c) ==
    /\ pc[c] = "wrap"
    /\ \E seed \in Seeds :
          frame' = [frame EXCEPT ![c].key_b64 =
              B64(RsaOaepEncrypt(attrs.PUB_KEY, frame[c].aes_key, seed))]
    /\ LibCall(c, "cipher_rsa.encrypt", frame[c].aes_key)
    /\ Step(c)
    /\ UNCHANGED <<timed_buy, events, arg, out, now, attrs, payload, api_path, clock_reads, draws>>

\* Mutant: a key that failed to import is dropped from the class.
WrapKeyFailsAndDropsKey(c) ==
    /\ pc[c] = "wrap"
    /\ Raise(c, "cipher_rsa.encrypt:Error")
    /\ LibCall(c, "cipher_rsa.encrypt", frame[c].aes_key)
    /\ attrs' = [attrs EXCEPT !.PUB_KEY = ""]
    /\ UNCHANGED <<timed_buy, events, arg, out, now, payload, api_path, clock_reads, draws>>

\* RSA.import_key or the OAEP encryption fails.
WrapKeyFails(c) ==
    /\ pc[c] = "wrap"
    /\ Raise(c, "cipher_rsa.encrypt:Error")
    /\ LibCall(c, "cipher_rsa.encrypt", frame[c].aes_key)
    /\ UNCHANGED <<timed_buy, events, arg, out, now, attrs, payload, api_path, clock_reads, draws>>

\* Mutant: the signature is returned beside the encrypted data.
EnvelopeWithSignature(c) ==
    [key |-> frame[c].key_b64, data |-> frame[c].data_b64,
     signature |-> frame[c].signature]

\* return {"key": key_b64, "data": data_b64}
Envelope(c) == [key |-> frame[c].key_b64, data |-> frame[c].data_b64]

\* Mutant: a call returns only while no other call is inside _crypto_data.
ReturnWhenAlone(c) ==
    /\ pc[c] = "return"
    /\ \A d \in Calls \ {c} : pc[d] \in {"idle", "done", "returned", "error"}
    /\ result' = [result EXCEPT ![c] = <<Envelope(c)>>]
    /\ frame' = [frame EXCEPT ![c] = NoFrame]
    /\ pc' = [pc EXCEPT ![c] = Successor(pc[c])]
    /\ UNCHANGED <<timed_buy, events, arg, out, now, attrs, payload, api_path, raised, clock_reads, draws,
                   calls, posted, returned>>

\* Line 106: the envelope is returned and the locals are gone.
Return(c) ==
    /\ pc[c] = "return"
    /\ result' = [result EXCEPT ![c] = <<Envelope(c)>>]
    /\ frame' = [frame EXCEPT ![c] = NoFrame]
    /\ pc' = [pc EXCEPT ![c] = Successor(pc[c])]
    /\ UNCHANGED <<timed_buy, events, arg, out, now, attrs, payload, api_path, raised, clock_reads, draws,
                   calls, posted, returned>>

\* What the server answers: resp.json().
Responses == {[success |-> TRUE, error |-> ""]}

\* The failures of requests.post and raise_for_status, all of them
\* RequestException.
TransportErrors == {"ConnectionError", "HTTPError"}

\* Line 126: json=encrypted, the envelope _crypto_data returned.
PostBody(c) == result[c][1]

\* Lines 126-128: the envelope is posted and the parsed answer returned.
Post(c) ==
    /\ pc[c] = "done"
    /\ posted' = [posted EXCEPT ![c] = Append(@, PostBody(c))]
    /\ \E resp \in Responses : returned' = [returned EXCEPT ![c] = <<resp>>]
    /\ result' = [result EXCEPT ![c] = <<>>]
    /\ pc' = [pc EXCEPT ![c] = "returned"]
    /\ UNCHANGED <<timed_buy, events, arg, out, now, attrs, payload, api_path, frame, raised, clock_reads,
                   draws, calls>>

\* Mutant: the failure of the transport is let through to the caller.
PostFailsAndRaises(c) ==
    /\ pc[c] = "done"
    /\ posted' = [posted EXCEPT ![c] = Append(@, PostBody(c))]
    /\ \E e \in TransportErrors : raised' = [raised EXCEPT ![c] = e]
    /\ result' = [result EXCEPT ![c] = <<>>]
    /\ pc' = [pc EXCEPT ![c] = "error"]
    /\ UNCHANGED <<timed_buy, events, arg, out, now, attrs, payload, api_path, frame, returned, clock_reads,
                   draws, calls>>

\* Lines 129-133: a RequestException of the post is caught and returned as
\* a dict.
PostFails(c) ==
    /\ pc[c] = "done"
    /\ posted' = [posted EXCEPT ![c] = Append(@, PostBody(c))]
    /\ \E e \in TransportErrors :
          returned' = [returned EXCEPT ![c] = <<[success |-> FALSE, error |-> e]>>]
    /\ result' = [result EXCEPT ![c] = <<>>]
    /\ pc' = [pc EXCEPT ![c] = "returned"]
    /\ UNCHANGED <<timed_buy, events, arg, out, now, attrs, payload, api_path, frame, raised, clock_reads,
                   draws, calls>>

Next ==
    \/ Tick
    \/ \E c \in Calls, req \in Requests : SendRequest(c, req)
    \/ \E c \in Calls : Assemble(c)
    \/ \E c \in Calls : Sign(c)
    \/ \E c \in Calls : GenKey(c)
    \/ \E c \in Calls : GenKeyFails(c)
    \/ \E c \in Calls : CipherSetup(c)
    \/ \E c \in Calls : Dumps(c)
    \/ \E c \in Calls : Encrypt(c)
    \/ \E c \in Calls : EncryptFails(c)
    \/ \E c \in Calls : WrapKey(c)
    \/ \E c \in Calls : WrapKeyFails(c)
    \/ \E c \in Calls : Return(c)
    \/ \E c \in Calls : Post(c)
    \/ \E c \in Calls : PostFails(c)

Spec == Init /\ [][Next]_vars

\* A statement of _crypto_data, lines 70-106, run by call c.
Construction(c) ==
    \/ Assemble(c)
    \/ Sign(c)
    \/ GenKey(c)
    \/ GenKeyFails(c)
    \/ CipherSetup(c)
    \/ Dumps(c)
    \/ Encrypt(c)
    \/ EncryptFails(c)
    \/ WrapKey(c)
    \/ WrapKeyFails(c)
    \/ Return(c)

\* The calls from their entry to the end of _crypto_data, while the clock
\* stands: no statement of lines 70-106 has a condition on the clock.
LiveNext ==
    \/ \E c \in Calls, req \in Requests : SendRequest(c, req)
    \/ \E c \in Calls : Construction(c)

\* A call inside _crypto_data goes on running: the interpreter schedules
\* its thread, and no statement of lines 70-106 waits for anything.
LiveSpec == Init /\ [][LiveNext]_vars /\ \A c \in Calls : WF_vars(Construction(c))

\* ------------------------------------------- the canonicalization on its own

\* Keys of which one is a proper prefix of another, and "-" sorts below "=".
CanonKeys == {Str(<<"a">>), Str(<<"a", "-">>), Str(<<"b">>), Str(<<"x">>)}

\* Values: two str, None, and one dict built in either insertion order.
CanonValues ==
    { StrV(Str(<<"1">>)), StrV(Str(<<"2">>)), NoneV,
      DictV(<<Entry(Str(<<"a">>), IntV(1)), Entry(Str(<<"b">>), IntV(2))>>),
      DictV(<<Entry(Str(<<"b">>), IntV(2)), Entry(Str(<<"a">>), IntV(1))>>) }

\* The parameter maps: the keys distinct, in any insertion order.
CanonInputs ==
    UNION { { d \in [1..n -> [k : CanonKeys, v : CanonValues]] :
                \A i, j \in 1..n : d[i].k = d[j].k => i = j } : n \in 0..MaxEntries }

\* The calls are as in Init; the map is any of CanonInputs.
CanonInit ==
    /\ Init!1 /\ Init!2 /\ Init!3 /\ Init!4 /\ Init!5 /\ Init!6 /\ Init!7
    /\ Init!8 /\ Init!9 /\ Init!10 /\ Init!11 /\ Init!12 /\ Init!13
    /\ Init!16 /\ Init!17
    /\ arg \in CanonInputs
    /\ out = <<>>

\* Lines 75-82 on the map given.
Canonicalize ==
    /\ out = <<>>
    /\ out' = <<SignStr(arg)>>
    /\ UNCHANGED <<now, attrs, pc, payload, api_path, frame, result, raised,
                   clock_reads, draws, calls, posted, returned, arg,
                   timed_buy, events>>

CanonNext == Canonicalize

CanonSpec == CanonInit /\ [][CanonNext]_vars

\* ------------------------------------------- AutoBuy.timed_buy (auto_buy.py)

\* What buy() returns: (True, result), or (False, error) for a timeout or a
\* status that is not 200; it catches every Exception.
BuyOutcomes ==
    { [ok |-> TRUE, result |-> "order"],
      [ok |-> FALSE, result |-> "timeout"],
      [ok |-> FALSE, result |-> "status"] }

\* An entry of the history: wait_until slept, wait_until returned, buy()
\* returned, timed_buy slept retry_interval.
Event(e, ok, res) == [e |-> e, ok |-> ok, result |-> res]

\* timed_buy(target_time_str, retry_times, retry_interval) is called: the
\* time string is well formed or not, the target time is remaining sleeps
\* away.
BuyInit ==
    /\ Init!1 /\ Init!2 /\ Init!3 /\ Init!4 /\ Init!5 /\ Init!6 /\ Init!7
    /\ Init!8 /\ Init!9 /\ Init!10 /\ Init!11 /\ Init!12 /\ Init!13
    /\ Init!14 /\ Init!15
    /\ \E r \in 0..MaxRetryTimes, w \in 0..MaxWait, v \in BOOLEAN :
          timed_buy = [pc |-> "wait", retry_times |-> r, valid |-> v,
                       remaining |-> w, i |-> 0, ret |-> <<>>, raised |-> ""]
    /\ events = <<>>

\* The variables of the calls of _send_request and of the functions run on
\* their own.
others ==
    <<now, attrs, pc, payload, api_path, frame, result, raised, clock_reads,
      draws, calls, posted, returned, arg, out>>

\* wait_until, lines 167-186: the target time is not reached, it sleeps.
WaitSleeps ==
    /\ timed_buy.pc = "wait"
    /\ timed_buy.valid
    /\ timed_buy.remaining > 0
    /\ timed_buy' = [timed_buy EXCEPT !.remaining = @ - 1]
    /\ events' = Append(events, Event("wait_sleep", TRUE, ""))
    /\ UNCHANGED others

\* wait_until returns at the target time; the loop of line 211 starts.
WaitReturns ==
    /\ timed_buy.pc = "wait"
    /\ timed_buy.valid
    /\ timed_buy.remaining = 0
    /\ timed_buy' = [timed_buy EXCEPT !.pc = "loop", !.i = 0]
    /\ events' = Append(events, Event("waited", TRUE, ""))
    /\ UNCHANGED others

\* Lines 149-155 and 188-191: strptime raises ValueError, wait_until raises
\* it again and timed_buy does not catch it.
WaitRaises ==
    /\ timed_buy.pc = "wait"
    /\ ~timed_buy.valid
    /\ timed_buy' = [timed_buy EXCEPT !.pc = "raised", !.raised = "ValueError"]
    /\ UNCHANGED <<events, others>>

\* Mutant: the loop goes on after an attempt that succeeded.
BuySucceedsAndGoesOn(outcome) ==
    /\ timed_buy.pc = "loop"
    /\ timed_buy.i < timed_buy.retry_times
    /\ outcome.ok
    /\ events' = Append(events, Event("buy", outcome.ok, outcome.result))
    /\ timed_buy' = [timed_buy EXCEPT !.i = @ + 1]
    /\ UNCHANGED others

\* Lines 211-220: attempt i succeeds and timed_buy returns (True, result).
BuySucceeds(outcome) ==
    /\ timed_buy.pc = "loop"
    /\ timed_buy.i < timed_buy.retry_times
    /\ outcome.ok
    /\ events' = Append(events, Event("buy", outcome.ok, outcome.result))
    /\ timed_buy' = [timed_buy EXCEPT
            !.pc = "returned",
            !.ret = <<[ok |-> TRUE, result |-> outcome.result]>>]
    /\ UNCHANGED others

\* Lines 211-225: attempt i fails; timed_buy sleeps when i < retry_times - 1.
BuyFails(outcome) ==
    /\ timed_buy.pc = "loop"
    /\ timed_buy.i < timed_buy.retry_times
    /\ ~outcome.ok
    /\ events' = Append(events, Event("buy", outcome.ok, outcome.result))
    /\ timed_buy' = [timed_buy EXCEPT
            !.pc = IF timed_buy.i < timed_buy.retry_times - 1 THEN "sleep" ELSE "loop",
            !.i = IF timed_buy.i < timed_buy.retry_times - 1 THEN @ ELSE @ + 1]
    /\ UNCHANGED others

\* Line 225: time.sleep(retry_interval), then the next i.
Sleep ==
    /\ timed_buy.pc = "sleep"
    /\ events' = Append(events, Event("sleep", TRUE, ""))
    /\ timed_buy' = [timed_buy EXCEPT !.pc = "loop", !.i = @ + 1]
    /\ UNCHANGED others

\* Lines 227-230: range(retry_times) is exhausted, timed_buy returns
\* (False, None).
GiveUp ==
    /\ timed_buy.pc = "loop"
    /\ timed_buy.i >= timed_buy.retry_times
    /\ timed_buy' = [timed_buy EXCEPT
            !.pc = "returned",
            !.ret = <<[ok |-> FALSE, result |-> "None"]>>]
    /\ UNCHANGED <<events, others>>

BuyNext ==
    \/ WaitSleeps
    \/ WaitReturns
    \/ WaitRaises
    \/ \E outcome \in BuyOutcomes : BuySucceeds(outcome)
    \/ \E outcome \in BuyOutcomes : BuyFails(outcome)
    \/ Sleep
    \/ GiveUp

BuySpec == BuyInit /\ [][BuyNext]_vars

\* ------------------------------------------------------ _pad_pkcs7 on its own

\* Byte values: zero, the smallest and the largest padding byte, the largest
\* byte.
PadBytes == {0, 1, BlockSize, 255}

\* The byte strings: one byte value throughout, and any of them at the end.
PadInputs ==
    { [i \in 1..n |-> IF i = n THEN last ELSE fill] :
        n \in 0..MaxDataLen, fill \in PadBytes, last \in PadBytes }

\* The calls are as in Init; the bytes are any of PadInputs.
PadInit ==
    /\ Init!1 /\ Init!2 /\ Init!3 /\ Init!4 /\ Init!5 /\ Init!6 /\ Init!7
    /\ Init!8 /\ Init!9 /\ Init!10 /\ Init!11 /\ Init!12 /\ Init!13
    /\ Init!16 /\ Init!17
    /\ arg \in PadInputs
    /\ out = <<>>

\* Lines 62-65 on the bytes given.
Pad ==
    /\ out = <<>>
    /\ out' = <<_pad_pkcs7(arg)>>
    /\ UNCHANGED <<now, attrs, pc, payload, api_path, frame, result, raised,
                   clock_reads, draws, calls, posted, returned, arg,
                   timed_buy, events>>

PadNext == Pad

PadSpec == PadInit /\ [][PadNext]_vars

\* ------------------------------------------------------------ claim helpers

\* The protocol state a call is in, by the statement it executes next:
\* signing ends with line 88, encryption with line 98, key wrapping with
\* line 104.
Stage(label) ==
    CASE label = "idle" -> "NotStarted"
      [] label = "assemble" -> "Init"
      [] label = "sign" -> "ParamsAssembled"
      [] label \in {"genkey", "cipher", "dumps", "encrypt"} -> "Signed"
      [] label = "wrap" -> "Encrypted"
      [] label = "return" -> "KeyWrapped"
      [] label \in {"done", "returned"} -> "Envelope"
      [] label = "error" -> "Error"

\* The one stage that may follow a stage of a construction under way.
NextStage(stage) ==
    CASE stage = "NotStarted" -> "Init"
      [] stage = "Init" -> "ParamsAssembled"
      [] stage = "ParamsAssembled" -> "Signed"
      [] stage = "Signed" -> "Encrypted"
      [] stage = "Encrypted" -> "KeyWrapped"
      [] stage = "KeyWrapped" -> "Envelope"
      [] OTHER -> stage

\* The locals of call c exist: it is inside _crypto_data past line 72.
Running(c) ==
    pc[c] \in {"sign", "genkey", "cipher", "dumps", "encrypt", "wrap", "return"}

\* s.split(sep) for a one-character separator.
RECURSIVE SplitFrom(_, _, _)
SplitFrom(s, sep, acc) ==
    IF s = <<>> THEN <<acc>>
    ELSE IF Head(s) = sep THEN <<acc>> \o SplitFrom(Tail(s), sep, <<>>)
    ELSE SplitFrom(Tail(s), sep, Append(acc, Head(s)))

Split(s, sep) == SplitFrom(s, sep, <<>>)

\* sub occurs in s.
IsSubstring(sub, s) ==
    \E i \in 0..(Len(s) - Len(sub)) :
        \A j \in 1..Len(sub) : s[i + j] = sub[j]

\* ------------------------------------------------------------------ claims

\* C1: every step of a construction leaves its stage as it is, moves it to
\* the one next stage of Init, ParamsAssembled, Signed, Encrypted, KeyWrapped,
\* Envelope, or aborts it; nothing follows Envelope (nor an abort).
C1_StagesInOrder ==
    [][\A c \in Calls :
          LET before == Stage(pc[c])
              after == Stage(pc'[c])
          IN  \/ after = before
              \/ after = NextStage(before)
              \/ /\ after = "Error"
                 /\ before \notin {"NotStarted", "Envelope"}]_vars

C1_Witness == \E c \in Calls : Stage(pc[c]) = "Envelope" /\ result[c] # <<>>

\* C2: a call that ended with json.dumps' TypeError drew no key and made no
\* cryptographic call before it.
C2_SerializationErrorBeforeCrypto ==
    \A c \in Calls :
        raised[c] = "json.dumps:TypeError" => draws[c] = <<>> /\ calls[c] = <<>>

\* C3: a construction reads the clock once, and the value read is the one in
\* the timestamp part of the signed string and the one under "timestamp" in
\* the map whose JSON is encrypted.
C3_OneTimestamp ==
    \A c \in Calls :
        /\ Len(clock_reads[c]) <= 1
        /\ Running(c) => Len(clock_reads[c]) = 1
        /\ pc[c] \in {"genkey", "cipher", "dumps", "encrypt", "wrap", "return"} =>
              LET parts == Split(frame[c].sign_str, CodePoint["&"])
              IN  \E i \in 1..Len(parts) :
                      parts[i] = K_timestamp \o Str(<<"=">>)
                                     \o IntToStr(clock_reads[c][1])
        /\ pc[c] \in {"encrypt", "wrap", "return"} =>
              /\ frame[c].plaintext = JsonDumps(frame[c].params)
              /\ DictGet(frame[c].params, K_timestamp) = IntV(clock_reads[c][1])
        /\ pc[c] \in {"wrap", "return"} =>
              frame[c].data_b64.b64.pt = _pad_pkcs7(frame[c].plaintext)

\* The clock has moved on between the signing and the encryption of a call.
C3_Witness ==
    \E c \in Calls :
        /\ pc[c] = "return"
        /\ clock_reads[c] = <<0>>
        /\ now > 0

\* C4: a call that failed has an exception and no envelope; a call has an
\* envelope only when it ended without exception, and then the envelope
\* holds the encrypted data and the wrapped key.
C4_AllOrNothing ==
    \A c \in Calls :
        /\ pc[c] = "error" => raised[c] # "" /\ result[c] = <<>>
        /\ pc[c] # "done" => result[c] = <<>>
        /\ result[c] # <<>> =>
              /\ pc[c] = "done"
              /\ raised[c] = ""
              /\ Len(result[c]) = 1
              /\ DOMAIN result[c][1] = {"key", "data"}
              /\ result[c][1].key.b64.alg = "RSA-OAEP"
              /\ result[c][1].data.b64.alg = "AES-CBC"

\* A call failed in the key wrap, after its data had been encrypted, and
\* another call returned its envelope.
C4_Witness ==
    \E c, d \in Calls :
        /\ pc[c] = "error" /\ raised[c] = "cipher_rsa.encrypt:Error"
        /\ pc[d] = "done" /\ result[d] # <<>>

\* What _crypto_data returns when nothing else runs: the envelope as a
\* function of its arguments, the class attributes, the clock value, the key
\* and the seed.
EnvelopeAlone(params, path, cls, timestamp, key, seed) ==
    LET assembled == AssembledParams(params, path, cls.APP_ID, timestamp)
        signature == HmacMd5Hex(cls.SECRET, SignStr(assembled))
        signed == DictSet(assembled, K_signature, StrV(signature))
    IN  [key |-> B64(RsaOaepEncrypt(cls.PUB_KEY, key, seed)),
         data |-> B64(AesEncrypt(AesNew(key, ZeroIv),
                                 _pad_pkcs7(JsonDumps(signed))))]

\* C5: however the calls interleave, the envelope a call returns is the one
\* the call yields alone from its own payload and path, the clock value it
\* read and the key it drew; and a step changes the locals, result and
\* history of one call at most.
C5_AsIfAlone ==
    /\ [](\A c \in Calls :
            result[c] # <<>> =>
                \E seed \in Seeds :
                    result[c][1] =
                        EnvelopeAlone(payload[c], api_path[c].s, attrs,
                                      clock_reads[c][1], draws[c][1], seed))
    /\ [][\A c, d \in Calls :
            c # d /\ pc'[c] # pc[c] =>
                /\ frame'[d] = frame[d]
                /\ result'[d] = result[d]
                /\ clock_reads'[d] = clock_reads[d]
                /\ draws'[d] = draws[d]
                /\ calls'[d] = calls[d]]_vars

\* Two calls with different payloads have both returned an envelope.
C5_Witness ==
    /\ \A c \in Calls : pc[c] = "done" /\ result[c] # <<>>
    /\ \E c, d \in Calls : payload[c] # payload[d]

\* C6: two constructions never carry the same timestamp.
C6_TimestampsDiffer ==
    \A c, d \in Calls :
        c # d /\ clock_reads[c] # <<>> /\ clock_reads[d] # <<>> =>
            clock_reads[c][1] # clock_reads[d][1]

\* C7: a construction that has a key drew it itself, in its one draw from
\* os.urandom; every key it hands to the cipher or the key wrap, and the key
\* in its envelope, is that draw; a call that has ended holds no key.
C7_OwnFreshKey ==
    \A c \in Calls :
        /\ pc[c] \in {"cipher", "dumps", "encrypt", "wrap", "return"} =>
              /\ Len(draws[c]) = 1
              /\ frame[c].aes_key = draws[c][1]
        /\ \A i \in 1..Len(calls[c]) :
              calls[c][i].key # <<>> =>
                  Len(draws[c]) = 1 /\ calls[c][i].key = draws[c][1]
        /\ result[c] # <<>> =>
              /\ Len(draws[c]) = 1
              /\ result[c][1].data.b64.key = draws[c][1]
              /\ result[c][1].key.b64.msg = draws[c][1]
        /\ pc[c] \in {"idle", "done", "error"} => frame[c].aes_key = <<>>

\* Both calls have returned an envelope for the same payload and path, as
\* when the caller retries.
C7_Witness ==
    /\ \A c \in Calls : pc[c] = "done" /\ Len(draws[c]) = 1
    /\ \A c, d \in Calls : payload[c] = payload[d] /\ api_path[c] = api_path[d]

\* The calls of operation op in the history of call c.
CallsOf(c, op) == SelectSeq(calls[c], LAMBDA e : e.op = op)

\* C8: a construction that returned drew one key, gave it once to AES.new
\* and once to the RSA-OAEP encryption, and the key wrapped in "key" is the
\* key that encrypted "data".
C8_SameKeyWrapped ==
    \A c \in Calls :
        result[c] # <<>> =>
            /\ Len(CallsOf(c, "os.urandom")) = 1
            /\ Len(draws[c]) = 1
            /\ CallsOf(c, "AES.new") = <<[op |-> "AES.new", key |-> draws[c][1]]>>
            /\ Len(CallsOf(c, "cipher_aes.encrypt")) = 1
            /\ CallsOf(c, "cipher_rsa.encrypt") =
                   <<[op |-> "cipher_rsa.encrypt", key |-> draws[c][1]]>>
            /\ result[c][1].key.b64.msg = result[c][1].data.b64.key

\* The two calls returned envelopes under different keys.
C8_Witness ==
    \E c, d \in Calls :
        /\ result[c] # <<>> /\ result[d] # <<>>
        /\ draws[c] # draws[d]

\* The signature of a call that has read the clock: the HMAC of the
\* canonical string of its assembled map.
SignatureOf(c) ==
    HmacMd5Hex(attrs.SECRET,
               SignStr(AssembledParams(payload[c], api_path[c].s, attrs.APP_ID,
                                       clock_reads[c][1])))

\* C9: the map holds the signature from the end of signing on; the envelope
\* returned has the fields "key" and "data" and no other, both ciphertexts,
\* and the signature is in the plaintext that "data" encrypts.
C9_SignatureOnlyEncrypted ==
    \A c \in Calls :
        /\ pc[c] \in {"genkey", "cipher", "dumps", "encrypt", "wrap", "return"} =>
              /\ K_signature \in DictKeys(frame[c].params)
              /\ DictGet(frame[c].params, K_signature) = StrV(frame[c].signature)
        /\ result[c] # <<>> =>
              /\ DOMAIN result[c][1] = {"key", "data"}
              /\ result[c][1].key.b64.alg = "RSA-OAEP"
              /\ result[c][1].data.b64.alg = "AES-CBC"
              /\ IsSubstring(Str(<<"\"">>) \o K_signature \o Str(<<"\"", ":", "\"">>)
                                 \o SignatureOf(c) \o Str(<<"\"">>),
                             result[c][1].data.b64.pt)

\* A call whose payload had a "signature" of the caller's returned.
C9_Witness ==
    \E c \in Calls :
        /\ result[c] # <<>>
        /\ K_signature \in DictKeys(payload[c])

\* C10: from the end of signing to the encryption the map holds apiPath,
\* appId, timestamp and signature, and the plaintext that is encrypted is the
\* JSON of that map.
C10_ProtocolFieldsPresent ==
    \A c \in Calls :
        /\ pc[c] \in {"genkey", "cipher", "dumps", "encrypt"} =>
              {K_apiPath, K_appId, K_timestamp, K_signature}
                  \subseteq DictKeys(frame[c].params)
        /\ pc[c] = "encrypt" => frame[c].plaintext = JsonDumps(frame[c].params)

\* A call whose payload had none of the four keys is about to encrypt.
C10_Witness ==
    \E c \in Calls :
        /\ pc[c] = "encrypt"
        /\ DictKeys(payload[c]) \cap
               {K_apiPath, K_appId, K_timestamp, K_signature} = {}

\* C11: a call hands a body to requests.post only after its construction
\* has returned an envelope; a call whose construction raised posts nothing
\* and returns nothing; every body posted is the complete envelope of the
\* call, both fields ciphertexts.
C11_PostOnlyEnvelope ==
    \A c \in Calls :
        /\ pc[c] # "returned" => posted[c] = <<>> /\ returned[c] = <<>>
        /\ raised[c] # "" => posted[c] = <<>> /\ returned[c] = <<>>
        /\ \A i \in 1..Len(posted[c]) :
              /\ DOMAIN posted[c][i] = {"key", "data"}
              /\ posted[c][i].key.b64.alg = "RSA-OAEP"
              /\ posted[c][i].data.b64.alg = "AES-CBC"
              /\ \E seed \in Seeds :
                    posted[c][i] =
                        EnvelopeAlone(payload[c], api_path[c].s, attrs,
                                      clock_reads[c][1], draws[c][1], seed)

\* One call has posted its envelope, the other failed in the key wrap.
C11_Witness ==
    \E c, d \in Calls :
        /\ pc[c] = "returned" /\ Len(posted[c]) = 1
        /\ pc[d] = "error" /\ raised[d] = "cipher_rsa.encrypt:Error"

C13_NothingTwice ==
    \A c \in Calls :
        /\ Len(clock_reads[c]) <= 1
        /\ Len(draws[c]) <= 1
        /\ \A op \in {"hmac.new", "os.urandom", "AES.new", "cipher_aes.encrypt",
                      "cipher_rsa.encrypt"} : Len(CallsOf(c, op)) <= 1
        /\ Len(posted[c]) <= 1
        /\ Len(returned[c]) <= 1

\* One call failed in its draw from os.urandom, the other has posted.
C13_Witness ==
    \E c, d \in Calls :
        /\ pc[c] = "error" /\ raised[c] = "os.urandom:OSError"
        /\ Len(CallsOf(c, "os.urandom")) = 1
        /\ pc[d] = "returned" /\ Len(posted[d]) = 1

\* C14: the IV of the cipher, of the encrypted data and of the body posted
\* is 16 zero bytes, whatever the payload, the key and the clock value.
C14_ZeroIv ==
    \A c \in Calls :
        /\ pc[c] \in {"dumps", "encrypt", "wrap", "return"} =>
              frame[c].cipher_aes.iv = [i \in 1..16 |-> 0]
        /\ pc[c] \in {"wrap", "return"} =>
              frame[c].data_b64.b64.iv = [i \in 1..16 |-> 0]
        /\ result[c] # <<>> => result[c][1].data.b64.iv = [i \in 1..16 |-> 0]
        /\ \A i \in 1..Len(posted[c]) :
              posted[c][i].data.b64.iv = [i2 \in 1..16 |-> 0]

\* Two envelopes were posted that differ in payload, key and clock value.
C14_Witness ==
    \E c, d \in Calls :
        /\ Len(posted[c]) = 1 /\ Len(posted[d]) = 1
        /\ payload[c] # payload[d]
        /\ draws[c] # draws[d]
        /\ clock_reads[c] # clock_reads[d]

\* Two values are equal as Python compares them: two dicts when they hold the
\* same entries, in whatever order.
ValueEq(v, w) ==
    IF v.t = "dict" /\ w.t = "dict"
    THEN /\ Len(v.items) = Len(w.items)
         /\ \A i \in 1..Len(v.items) :
                \E j \in 1..Len(w.items) : w.items[j] = v.items[i]
    ELSE v = w

\* Two maps hold the same key/value entries.
SameEntries(d1, d2) ==
    /\ Len(d1) = Len(d2)
    /\ \A i \in 1..Len(d1) :
          \E j \in 1..Len(d2) : d2[j].k = d1[i].k /\ ValueEq(d2[j].v, d1[i].v)

\* C15: any map with the same key/value entries as the map canonicalized has
\* the same canonical string.
C15_OrderIndependent ==
    out # <<>> =>
        \A d \in CanonInputs : SameEntries(arg, d) => SignStr(d) = out[1]

\* a sorts before b, compared code point by code point over the whole of
\* both, a proper prefix first.
Precedes(a, b) ==
    \E i \in 1..Len(b) :
        /\ i <= Len(a) + 1
        /\ SubSeq(a, 1, i - 1) = SubSeq(b, 1, i - 1)
        /\ (i = Len(a) + 1 \/ a[i] < b[i])

\* The entries of a map whose value is not None.
NotNone(d) == SelectSeq(d, LAMBDA e : e.v.t # "none")

\* C16: the canonical string is the "&"-join of the "key=value" strings of
\* the map in ascending order of the whole string; of two keys, one a proper
\* prefix of the other and followed there by a character below "=", the
\* longer key's string comes first.
C16_SortedByWholeString ==
    out # <<>> =>
        LET parts == Parts(arg)
            sorted == Split(out[1], CodePoint["&"])
        IN  /\ \E p \in Permutations(1..Len(parts)) :
                  LET s == [i \in 1..Len(parts) |-> parts[p[i]]]
                  IN  /\ \A i, j \in 1..Len(s) : i < j => ~Precedes(s[j], s[i])
                      /\ out[1] = Join(Str(<<"&">>), s)
            /\ parts # <<>> => Len(sorted) = Len(parts)
            /\ \A i, j \in 1..Len(NotNone(arg)) :
                  LET ki == NotNone(arg)[i].k
                      kj == NotNone(arg)[j].k
                  IN  ( /\ Len(ki) < Len(kj)
                        /\ SubSeq(kj, 1, Len(ki)) = ki
                        /\ kj[Len(ki) + 1] < CodePoint["="] )
                      => \E m, n \in 1..Len(sorted) :
                            /\ m < n
                            /\ sorted[m] = parts[j]
                            /\ sorted[n] = parts[i]

\* A map with the keys "a" and "a-" was canonicalized: "a-=..." comes first.
C16_Witness ==
    /\ out # <<>>
    /\ Len(NotNone(arg)) = 2
    /\ DictKeys(arg) = {Str(<<"a">>), Str(<<"a", "-">>)}
    /\ arg[1].k = Str(<<"a">>)
    /\ SubSeq(out[1], 1, 3) = Str(<<"a", "-", "=">>)

\* C17: the canonical string of a map is the canonical string of the map
\* without its entries whose value is None, and "key=" of such an entry
\* begins none of its "key=value" strings.
C17_NoneContributesNothing ==
    out # <<>> =>
        /\ out[1] = SignStr(NotNone(arg))
        /\ \A i \in 1..Len(arg) :
              arg[i].v.t = "none" =>
                  LET head == arg[i].k \o Str(<<"=">>)
                      sorted == Split(out[1], CodePoint["&"])
                  IN  \A m \in 1..Len(sorted) :
                          \/ Len(sorted[m]) < Len(head)
                          \/ SubSeq(sorted[m], 1, Len(head)) # head

\* A map with one entry of value None and one of another value was
\* canonicalized.
C17_Witness ==
    /\ out # <<>>
    /\ Len(arg) = 2
    /\ Len(NotNone(arg)) = 1
    /\ out[1] # <<>>

\* C18: _pad_pkcs7 keeps the n bytes given and appends p = 16 - (n mod 16)
\* bytes of value p: p is between 1 and 16, n + p is a multiple of 16, and p
\* is 16 when n is a multiple of 16.
C18_PaddingLength ==
    out # <<>> =>
        LET n == Len(arg)
            p == Len(out[1]) - n
        IN  /\ p = 16 - (n % 16)
            /\ 1 <= p /\ p <= 16
            /\ (n + p) % 16 = 0
            /\ n % 16 = 0 => p = 16
            /\ SubSeq(out[1], 1, n) = arg
            /\ \A i \in (n + 1)..(n + p) : out[1][i] = p

\* Bytes that fill two blocks were padded with a third block.
C18_Witness ==
    /\ out # <<>>
    /\ Len(arg) = 32
    /\ Len(out[1]) = 48

\* The bytes left when as many bytes are removed from the end as the value
\* of the last byte.
Unpad(padded) == SubSeq(padded, 1, Len(padded) - padded[Len(padded)])

\* C19: removing from the output of _pad_pkcs7 as many bytes as the value of
\* its last byte gives the bytes that were padded.
C19_PaddingRoundTrip ==
    out # <<>> => Unpad(out[1]) = arg

\* Bytes that fill one block and end in the byte 16 were padded.
C19_Witness ==
    /\ out # <<>>
    /\ Len(arg) = 16
    /\ arg[16] = 16
    /\ arg[1] = 16

\* AES-CBC decryption: the plaintext under the key and IV of the encryption,
\* other bytes under any other.
AesDecrypt(key, iv, ct) ==
    IF ct.alg = "AES-CBC" /\ ct.key = key /\ ct.iv = iv THEN ct.pt
    ELSE <<"other bytes", key, iv, ct>>

\* C20: "data" decrypted with the key the construction drew and 16 zero bytes
\* is the padded compact JSON of the assembled map with "signature" set to
\* the HMAC of its canonical string; while the locals live, that is the map
\* in params, whose "signature" is the HMAC of sign_str.
C20_DecryptsToSignedJson ==
    \A c \in Calls :
        /\ pc[c] \in {"wrap", "return"} =>
              /\ AesDecrypt(frame[c].aes_key, [i \in 1..16 |-> 0],
                            frame[c].data_b64.b64)
                     = _pad_pkcs7(JsonDumps(frame[c].params))
              /\ DictGet(frame[c].params, K_signature)
                     = StrV(HmacMd5Hex(attrs.SECRET, frame[c].sign_str))
        /\ result[c] # <<>> =>
              LET full == DictSet(AssembledParams(payload[c], api_path[c].s,
                                                  attrs.APP_ID, clock_reads[c][1]),
                                  K_signature, StrV(SignatureOf(c)))
                  padded == AesDecrypt(draws[c][1], [i \in 1..16 |-> 0],
                                       result[c][1].data.b64)
              IN  /\ padded = _pad_pkcs7(JsonDumps(full))
                  /\ IsSubstring(Str(<<"\"">>) \o K_signature \o Str(<<"\"", ":", "\"">>)
                                     \o SignatureOf(c) \o Str(<<"\"">>),
                                 Unpad(padded))

\* A construction returned the envelope of a payload that came with a
\* "signature" entry of its own.
C20_Witness ==
    \E c \in Calls :
        /\ result[c] # <<>>
        /\ K_signature \in DictKeys(payload[c])

\* Two calls were given the same payload and path and read the same clock
\* value (the secret and the app id are the class's).
SameInputs(c, d) ==
    /\ payload[c] = payload[d]
    /\ api_path[c] = api_path[d]
    /\ clock_reads[c] # <<>>
    /\ clock_reads[c] = clock_reads[d]

\* C21: two constructions of the same payload, path and clock value have the
\* same canonical string and the same signature; when they also drew the
\* same key, their encrypted data, returned or posted, is the same.
C21_Deterministic ==
    \A c, d \in Calls :
        SameInputs(c, d) =>
            /\ ( /\ pc[c] \in {"genkey", "cipher", "dumps", "encrypt", "wrap", "return"}
                 /\ pc[d] \in {"genkey", "cipher", "dumps", "encrypt", "wrap", "return"} )
               => /\ frame[c].sign_str = frame[d].sign_str
                  /\ frame[c].signature = frame[d].signature
            /\ (draws[c] # <<>> /\ draws[c] = draws[d]) =>
                  LET Data(e) ==
                          IF result[e] # <<>> THEN <<result[e][1].data>>
                          ELSE IF posted[e] # <<>> THEN <<posted[e][1].data>>
                          ELSE IF pc[e] \in {"wrap", "return"} THEN <<frame[e].data_b64>>
                          ELSE <<>>
                  IN  (Data(c) # <<>> /\ Data(d) # <<>>) => Data(c) = Data(d)

\* Two calls of the same payload, path, clock value and key have both posted,
\* and the data they posted is the same.
C21_Witness ==
    \E c, d \in Calls :
        /\ c # d
        /\ SameInputs(c, d)
        /\ draws[c] # <<>> /\ draws[c] = draws[d]
        /\ Len(posted[c]) = 1 /\ Len(posted[d]) = 1
        /\ posted[c][1].data = posted[d][1].data

\* The keys of the map that is serialized, in the order the code inserts
\* them: the caller's keys in the caller's order, then of apiPath, appId,
\* timestamp and signature those the caller did not supply.
KeyOrder(c) ==
    [i \in 1..Len(payload[c]) |-> payload[c][i].k]
        \o SelectSeq(<<K_apiPath, K_appId, K_timestamp, K_signature>>,
                     LAMBDA k : k \notin DictKeys(payload[c]))

\* The compact JSON object of the map's entries in the order of keys.
JsonInOrder(keys, d) ==
    Str(<<"{">>)
        \o Join(Str(<<",">>), [i \in 1..Len(keys) |->
                 Str(<<"\"">>) \o keys[i] \o Str(<<"\"", ":">>)
                     \o JsonText(DictGet(d, keys[i]))])
        \o Str(<<"}">>)

\* C22: the plaintext that is encrypted is the JSON object of the map's
\* entries in KeyOrder, whatever order the signing sorted them in; so is the
\* plaintext inside the data returned.
C22_PlaintextInInsertionOrder ==
    \A c \in Calls :
        /\ pc[c] \in {"encrypt", "wrap", "return"} =>
              /\ [i \in 1..Len(frame[c].params) |-> frame[c].params[i].k] = KeyOrder(c)
              /\ frame[c].plaintext = JsonInOrder(KeyOrder(c), frame[c].params)
        /\ pc[c] \in {"wrap", "return"} =>
              Unpad(frame[c].data_b64.b64.pt)
                  = JsonInOrder(KeyOrder(c), frame[c].params)
        /\ result[c] # <<>> =>
              LET text == Unpad(result[c][1].data.b64.pt)
                  head == Str(<<"{", "\"">>) \o KeyOrder(c)[1] \o Str(<<"\"", ":">>)
                  tail == Str(<<",", "\"">>) \o K_signature \o Str(<<"\"", ":", "\"">>)
                              \o SignatureOf(c) \o Str(<<"\"", "}">>)
              IN  /\ SubSeq(text, 1, Len(head)) = head
                  /\ K_signature \notin DictKeys(payload[c]) =>
                        SubSeq(text, Len(text) - Len(tail) + 1, Len(text)) = tail

\* A call given the keys "b", "a" in that order has returned its envelope.
C22_Witness ==
    \E c \in Calls :
        /\ result[c] # <<>>
        /\ Len(payload[c]) = 2
        /\ payload[c][1].k = Str(<<"b">>)
        /\ payload[c][2].k = Str(<<"a">>)

\* C23: SECRET, PUB_KEY and APP_ID are at every moment the constants of the
\* class, whatever the calls have done; every signature is made under that
\* SECRET, every key wrapped under that PUB_KEY, every map holds that APP_ID.
C23_ConstantsUnchanged ==
    /\ attrs = [SECRET |-> SECRET, PUB_KEY |-> PUB_KEY, APP_ID |-> APP_ID]
    /\ \A c \in Calls :
          /\ pc[c] \in {"sign", "genkey", "cipher", "dumps", "encrypt", "wrap", "return"} =>
                DictGet(frame[c].params, K_appId) = StrV(APP_ID)
          /\ pc[c] \in {"genkey", "cipher", "dumps", "encrypt", "wrap", "return"} =>
                frame[c].signature = HmacMd5Hex(SECRET, frame[c].sign_str)
          /\ pc[c] = "return" => frame[c].key_b64.b64.pub = PUB_KEY
          /\ result[c] # <<>> => result[c][1].key.b64.pub = PUB_KEY
          /\ \A i \in 1..Len(posted[c]) : posted[c][i].key.b64.pub = PUB_KEY

\* One call failed in the key wrap; the other has returned an envelope.
C23_Witness ==
    \E c, d \in Calls :
        /\ raised[c] = "cipher_rsa.encrypt:Error"
        /\ result[d] # <<>>

\* C24: a call that has entered _crypto_data eventually has returned its
\* envelope or raised.
C24_Terminates ==
    \A c \in Calls :
        (pc[c] = "assemble") ~> (pc[c] \in {"done", "returned", "error"})

\* Both calls have ended their construction, one with an envelope and one
\* with an exception.
C24_Witness ==
    \E c, d \in Calls :
        /\ pc[c] = "done" /\ result[c] # <<>>
        /\ pc[d] = "error"

\* The JSON text of an entry: "key":value.
JsonEntry(k, v) == Str(<<"\"">>) \o k \o Str(<<"\"", ":">>) \o JsonText(v)

\* C25: under apiPath, appId, timestamp and signature the map holds the
\* quoted path, APP_ID, the clock value read and the HMAC computed, and so
\* does the plaintext inside the data returned; a different value the caller
\* supplied under one of those keys is not in it.
C25_ProtocolValuesOverride ==
    \A c \in Calls :
        /\ pc[c] \in {"genkey", "cipher", "dumps", "encrypt", "wrap", "return"} =>
              /\ DictGet(frame[c].params, K_apiPath) = StrV(quote(api_path[c].s))
              /\ DictGet(frame[c].params, K_appId) = StrV(attrs.APP_ID)
              /\ DictGet(frame[c].params, K_timestamp) = IntV(clock_reads[c][1])
              /\ DictGet(frame[c].params, K_signature)
                     = StrV(HmacMd5Hex(attrs.SECRET, frame[c].sign_str))
        /\ result[c] # <<>> =>
              LET text == Unpad(result[c][1].data.b64.pt)
                  own == <<Entry(K_apiPath, StrV(quote(api_path[c].s))),
                           Entry(K_appId, StrV(attrs.APP_ID)),
                           Entry(K_timestamp, IntV(clock_reads[c][1])),
                           Entry(K_signature, StrV(SignatureOf(c)))>>
              IN  \A i \in 1..Len(own) :
                      /\ IsSubstring(JsonEntry(own[i].k, own[i].v), text)
                      /\ \A j \in 1..Len(payload[c]) :
                            ( /\ payload[c][j].k = own[i].k
                              /\ payload[c][j].v # own[i].v )
                            => ~IsSubstring(JsonEntry(payload[c][j].k, payload[c][j].v),
                                            text)

\* A call whose payload came with values of its own under all four keys has
\* returned its envelope.
C25_Witness ==
    \E c \in Calls :
        /\ result[c] # <<>>
        /\ {K_apiPath, K_appId, K_timestamp, K_signature} \subseteq DictKeys(payload[c])
        /\ DictGet(payload[c], K_apiPath) # StrV(quote(api_path[c].s))

\* C26: from the call of _send_request on, whatever becomes of it, the
\* caller's payload and path are those that were passed, while the map
\* _crypto_data works on has the protocol fields.
C26_PayloadUntouched ==
    \A c \in Calls :
        pc[c] # "idle" =>
            /\ [payload |-> payload[c], api_path |-> api_path[c]] \in Requests
            /\ pc[c] \in {"sign", "genkey", "cipher", "dumps", "encrypt", "wrap", "return"} =>
                  /\ K_appId \in DictKeys(frame[c].params)
                  /\ \A i \in 1..Len(payload[c]) :
                        payload[c][i].k \notin {K_apiPath, K_appId, K_timestamp, K_signature}
                            => DictGet(frame[c].params, payload[c][i].k) = payload[c][i].v

\* One call has posted and one has failed after signing, both of a payload
\* without any of the four keys.
C26_Witness ==
    \E c, d \in Calls :
        /\ pc[c] = "returned"
        /\ pc[d] = "error" /\ Len(CallsOf(d, "hmac.new")) = 1
        /\ \A e \in {c, d} :
              DictKeys(payload[e]) \cap {K_apiPath, K_appId, K_timestamp, K_signature} = {}

\* C27: an entry of the payload whose value is None is not in the canonical
\* string, and is in the map and, as null, in the plaintext that is
\* encrypted; the keys of the plaintext are the caller's and the four
\* protocol fields.
C27_NoneStaysInPayload ==
    \A c \in Calls :
        /\ pc[c] \in {"genkey", "cipher", "dumps", "encrypt", "wrap", "return"} =>
              /\ DictKeys(frame[c].params)
                     = DictKeys(payload[c]) \cup {K_apiPath, K_appId, K_timestamp, K_signature}
              /\ \A i \in 1..Len(payload[c]) :
                    payload[c][i].v = NoneV =>
                        /\ DictGet(frame[c].params, payload[c][i].k) = NoneV
                        /\ \A m \in 1..Len(Split(frame[c].sign_str, CodePoint["&"])) :
                              LET part == Split(frame[c].sign_str, CodePoint["&"])[m]
                                  head == payload[c][i].k \o Str(<<"=">>)
                              IN  \/ Len(part) < Len(head)
                                  \/ SubSeq(part, 1, Len(head)) # head
        /\ result[c] # <<>> =>
              \A i \in 1..Len(payload[c]) :
                  /\ IsSubstring(Str(<<"\"">>) \o payload[c][i].k \o Str(<<"\"", ":">>),
                                 Unpad(result[c][1].data.b64.pt))
                  /\ payload[c][i].v = NoneV =>
                        IsSubstring(Str(<<"\"">>) \o payload[c][i].k
                                        \o Str(<<"\"", ":", "n", "u", "l", "l">>),
                                    Unpad(result[c][1].data.b64.pt))

\* A call whose payload has an entry of value None has returned its envelope.
C27_Witness ==
    \E c \in Calls :
        /\ result[c] # <<>>
        /\ \E i \in 1..Len(payload[c]) : payload[c][i].v = NoneV

\* C28: a call that met a failure of the transport has returned the value
\* {"success": False, "error": ...} and raised nothing; a call whose
\* construction failed has raised and returned no value; nothing else ends a
\* call.
C28_TwoFailureKinds ==
    \A c \in Calls :
        /\ raised[c] # "" =>
              /\ raised[c] \notin TransportErrors
              /\ pc[c] = "error"
              /\ returned[c] = <<>>
              /\ posted[c] = <<>>
        /\ returned[c] # <<>> =>
              /\ raised[c] = ""
              /\ pc[c] = "returned"
              /\ Len(posted[c]) = 1
              /\ returned[c][1].success = FALSE =>
                    returned[c][1].error \in TransportErrors
        /\ pc[c] = "error" => raised[c] # ""
        /\ pc[c] = "returned" => Len(returned[c]) = 1

\* One call met an HTTP error status after posting, the other failed in its
\* encryption.
C28_Witness ==
    \E c, d \in Calls :
        /\ returned[c] = <<[success |-> FALSE, error |-> "HTTPError"]>>
        /\ raised[d] = "cipher_aes.encrypt:Error"

\* The places of the history where buy() returned.
Buys == {k \in 1..Len(events) : events[k].e = "buy"}

\* C29: every attempt comes after the return of wait_until; an attempt that
\* is followed by another has failed; an attempt that succeeded is the last
\* thing timed_buy did, and timed_buy has returned (True, its result).
C29_AttemptsInOrder ==
    /\ \A k \in Buys : \E w \in 1..(k - 1) : events[w].e = "waited"
    /\ \A k, l \in Buys : k < l => ~events[k].ok
    /\ \A k \in Buys :
          events[k].ok =>
              /\ k = Len(events)
              /\ timed_buy.pc = "returned"
              /\ timed_buy.ret = <<[ok |-> TRUE, result |-> events[k].result]>>
    /\ timed_buy.pc \in {"wait", "raised"} => Buys = {}
    /\ (timed_buy.ret # <<>> /\ timed_buy.ret[1].ok) =>
          Buys # {} /\ events[Len(events)].ok /\ events[Len(events)].e = "buy"

\* timed_buy waited, failed twice and succeeded at the third attempt.
C29_Witness ==
    /\ timed_buy.pc = "returned"
    /\ timed_buy.ret = <<[ok |-> TRUE, result |-> "order"]>>
    /\ Cardinality(Buys) = 3
    /\ timed_buy.retry_times > 3 - 1
    /\ \E k \in 1..Len(events) : events[k].e = "wait_sleep"

\* C30: when timed_buy has returned (False, None), it has made the first
\* attempt and retry_times retries, and has slept between two attempts and
\* not after the last.
C30_RetryTimesRetries ==
    (timed_buy.pc = "returned" /\ ~timed_buy.ret[1].ok) =>
        /\ timed_buy.ret = <<[ok |-> FALSE, result |-> "None"]>>
        /\ Cardinality(Buys) = 1 + timed_buy.retry_times
        /\ Cardinality({k \in 1..Len(events) : events[k].e = "sleep"})
               = Cardinality(Buys) - 1
        /\ events[Len(events)].e = "buy"

====
